---- MODULE Spec2Model ----
(***************************************************************************)
(* SpectacleCore (src/src/SpectacleCore.cpp): the start-mode dispatch, the *)
(* timer-delayed capture requests and the callback chains to save, notify  *)
(* and report errors, as a state machine over the Qt event loop.           *)
(*                                                                         *)
(* One action is one slot or one event-loop delivery.  Every handler of    *)
(* the class is an operator from the state before the call (a record with  *)
(* one field per variable) to the state after it; `out` is the sequence of *)
(* calls and signal emissions the handler made, in program order, and `op` *)
(* names the handler with its arguments and the start mode it ran in.      *)
(***************************************************************************)
EXTENDS Integers, Sequences, FiniteSets, TLC

VARIABLES
    mStartMode,            \* SpectacleCore::mStartMode
    mNotify,               \* SpectacleCore::mNotify
    mImageGrabber,         \* which grabber class mImageGrabber points to, or "nullptr"
    mMainWindow,           \* "nullptr" or "KSMainWindow"
    isGuiInited,           \* SpectacleCore::isGuiInited
    mFileNameString,       \* SpectacleCore::mFileNameString
    mFileNameUrl,          \* SpectacleCore::mFileNameUrl
    grabMode,              \* ImageGrabber grab mode
    capturePointer,        \* ImageGrabber capture-pointer flag
    captureDecorations,    \* ImageGrabber capture-decorations flag
    onClickGrabSupported,  \* what mImageGrabber->onClickGrabSupported() answers
    mPixmap,               \* the pixmap held by the export manager
    timers,                \* pending QTimer::singleShot(..., doImageGrab)
    queued,                \* pending queued invokeMethod("doImageGrab")
    grabbing,              \* grabs started whose result is not delivered yet
    saves,                 \* doSave calls whose result is not delivered yet
    notifyConns,           \* imageSaved -> doNotify connections made by screenshotUpdated
    notifs,                \* KNotification objects alive
    doneTimers,            \* pending QTimer::singleShot(250, allDone)
    nGrabbers,             \* grabber objects created so far
    nWindows,              \* KSMainWindow objects created so far
    calls,                 \* calls and signals from outside made so far
    budget,                \* how many of them the run may have
    switched,              \* the mode dbusStartAgent left and the captures then pending
    op,                    \* the last handler, its arguments, the mode it ran in
    out                    \* what the last handler called and emitted, in order

vars == << mStartMode, mNotify, mImageGrabber, mMainWindow, isGuiInited,
           mFileNameString, mFileNameUrl, grabMode, capturePointer,
           captureDecorations, onClickGrabSupported, mPixmap, timers, queued,
           grabbing, saves, notifyConns, notifs, doneTimers, nGrabbers,
           nWindows, calls, budget, switched, op, out >>

----------------------------------------------------------------------------
(* Bounds of the model *)

\* The runs come in two families.  A run that starts without options in the
\* default environment has at most MaxCalls calls of the public slots and
\* setters and unasked signals of the export manager (errorMessage,
\* forceNotify), counted together.
MaxCalls == 2
\* A run that starts from any constructor arguments in any environment has at
\* most this many.
MaxCallsAnyEnv == 1
\* a save result or a forceNotify is delivered while at most this many
\* notifications would be alive, and "Open" is pressed while fewer than this
\* many allDone timers are pending
MaxNotifs == 2

(* Program constants *)

\* settle delay with compositing active
SettleComposited == 200
\* settle delay without compositing
SettlePlain == 50
\* delay of the allDone timer after "Open" was pressed
OpenDelay == 250
\* largest value of the C++ int the timer delay is computed in
IntMax == 2147483647

StartModes == {"GuiMode", "DBusMode", "BackgroundMode"}
GrabModes == {"FullScreen", "CurrentScreen", "ActiveWindow",
              "WindowUnderCursor", "RectangularRegion"}
Grabbers == {"X11ImageGrabber", "KWinWaylandImageGrabber", "DummyImageGrabber"}
Pixmaps == {"pixmapA"}

(* Input sets *)

GrabModeInputs == {"RectangularRegion"}
\* the requests of takeNewScreenshot: grab mode, pointer flag, decorations flag
RequestInputs == { <<"FullScreen", TRUE, FALSE>>, <<"ActiveWindow", FALSE, TRUE>> }
\* a qint64 as two words: the value is hi * 2^32 + lo, where lo is the low
\* 32 bits read as an int, -2^31 .. 2^31 - 1
Q64(hi, lo) == [hi |-> hi, lo |-> lo]
\* the delays given to the constructor: -1 (asks for an on-click grab), 0,
\* 1000, 2^31 - 1, 2^33 and -2^31 - 1000
DelayInputs == { Q64(0, -1), Q64(0, 0), Q64(0, 1000), Q64(0, IntMax),
                 Q64(2, 0), Q64(-1, 2147482648) }
TimeoutInputs == {-1, 0, 1000, IntMax}
\* file names are sequences of path tokens
FileNameInputs == { <<>>, <<"shot.png">> }
\* the grab modes given to setGrabMode after construction: a value of the
\* enumeration that the switch of doNotify does not name
SetGrabModeInputs == {"InvalidChoice"}
\* the error strings of the errorMessage signals
ErrorInputs == {"export failed"}
\* the file names given to the filename property after construction
SetFilenameInputs == { <<"http:", "/", "/", "host", "/", "shot.png">> }

----------------------------------------------------------------------------
(* Effects: one entry of `out` *)

E(what, arg, n) == [what |-> what, arg |-> arg, n |-> n]

Whats(s) == [i \in DOMAIN s |-> s[i].what]

Has(s, what) == \E i \in DOMAIN s : s[i].what = what

Count(s, what) == Cardinality({i \in DOMAIN s : s[i].what = what})

\* position of the first entry `what` of s, 0 when there is none
Pos(s, what) == IF Has(s, what)
                THEN CHOOSE i \in DOMAIN s :
                        /\ s[i].what = what
                        /\ \A j \in DOMAIN s : s[j].what = what => i <= j
                ELSE 0

BoolStr(b) == IF b THEN "true" ELSE "false"

----------------------------------------------------------------------------
(* Qt helpers the constructor and setFilename use *)

isRelativePath(name) == name = <<>> \/ Head(name) # "/"

absoluteFilePath(name) == IF isRelativePath(name)
                          THEN <<"/", "cwd", "/">> \o name
                          ELSE name

InvalidUrl == [valid |-> FALSE, scheme |-> "", path |-> <<>>]

fromUserInput(name) ==
    IF name = <<>> THEN InvalidUrl
    ELSE IF Head(name) = "/" THEN [valid |-> TRUE, scheme |-> "file", path |-> name]
    ELSE IF Head(name) = "http:" THEN [valid |-> TRUE, scheme |-> "http", path |-> name]
    ELSE [valid |-> TRUE, scheme |-> "http", path |-> name]

isLocalFile(url) == url.scheme = "file"

\* the low 32 bits of a + b read as an int, for ints a >= 0 and b
AddInt32(a, b) == IF b > IntMax - a
                  THEN (b - IntMax - 1) + (a - IntMax - 1)
                  ELSE a + b

\* q < 0 for a qint64
isNegative64(q) == q.hi < 0 \/ (q.hi = 0 /\ q.lo < 0)

\* int(a + q) for an int a >= 0 and a qint64 q: the sum is made in qint64
\* and the conversion to int keeps its low 32 bits, whatever the high word
narrowSum(a, q) == AddInt32(a, q.lo)

\* a + b overflows the C++ int
Overflows(a, b) == b > IntMax - a

----------------------------------------------------------------------------
(* The state as a record, and its assignment to the primed variables *)

St == [ mStartMode |-> mStartMode, mNotify |-> mNotify,
        mImageGrabber |-> mImageGrabber, mMainWindow |-> mMainWindow,
        isGuiInited |-> isGuiInited, mFileNameString |-> mFileNameString,
        mFileNameUrl |-> mFileNameUrl, grabMode |-> grabMode,
        capturePointer |-> capturePointer,
        captureDecorations |-> captureDecorations,
        onClickGrabSupported |-> onClickGrabSupported, mPixmap |-> mPixmap,
        timers |-> timers, queued |-> queued, grabbing |-> grabbing,
        saves |-> saves, notifyConns |-> notifyConns, notifs |-> notifs,
        doneTimers |-> doneTimers, nGrabbers |-> nGrabbers,
        nWindows |-> nWindows, calls |-> calls, budget |-> budget,
        switched |-> switched,
        op |-> op, out |-> out ]

Becomes(s) ==
    /\ mStartMode' = s.mStartMode
    /\ mNotify' = s.mNotify
    /\ mImageGrabber' = s.mImageGrabber
    /\ mMainWindow' = s.mMainWindow
    /\ isGuiInited' = s.isGuiInited
    /\ mFileNameString' = s.mFileNameString
    /\ mFileNameUrl' = s.mFileNameUrl
    /\ grabMode' = s.grabMode
    /\ capturePointer' = s.capturePointer
    /\ captureDecorations' = s.captureDecorations
    /\ onClickGrabSupported' = s.onClickGrabSupported
    /\ mPixmap' = s.mPixmap
    /\ timers' = s.timers
    /\ queued' = s.queued
    /\ grabbing' = s.grabbing
    /\ saves' = s.saves
    /\ notifyConns' = s.notifyConns
    /\ notifs' = s.notifs
    /\ doneTimers' = s.doneTimers
    /\ nGrabbers' = s.nGrabbers
    /\ nWindows' = s.nWindows
    /\ calls' = s.calls
    /\ budget' = s.budget
    /\ switched' = s.switched
    /\ op' = s.op
    /\ out' = s.out

Starts(s) ==
    /\ mStartMode = s.mStartMode
    /\ mNotify = s.mNotify
    /\ mImageGrabber = s.mImageGrabber
    /\ mMainWindow = s.mMainWindow
    /\ isGuiInited = s.isGuiInited
    /\ mFileNameString = s.mFileNameString
    /\ mFileNameUrl = s.mFileNameUrl
    /\ grabMode = s.grabMode
    /\ capturePointer = s.capturePointer
    /\ captureDecorations = s.captureDecorations
    /\ onClickGrabSupported = s.onClickGrabSupported
    /\ mPixmap = s.mPixmap
    /\ timers = s.timers
    /\ queued = s.queued
    /\ grabbing = s.grabbing
    /\ saves = s.saves
    /\ notifyConns = s.notifyConns
    /\ notifs = s.notifs
    /\ doneTimers = s.doneTimers
    /\ nGrabbers = s.nGrabbers
    /\ nWindows = s.nWindows
    /\ calls = s.calls
    /\ budget = s.budget
    /\ switched = s.switched
    /\ op = s.op
    /\ out = s.out

\* a handler starts with an empty record of its calls
Enter(s, o) == [s EXCEPT !.op = o, !.out = <<>>]

Emit(s, what, arg, n) == [s EXCEPT !.out = Append(@, E(what, arg, n))]

----------------------------------------------------------------------------
(* The handlers of SpectacleCore *)

settleDelay(compositing) == IF compositing THEN SettleComposited ELSE SettlePlain

setFilename(s, filename) ==
    [s EXCEPT !.mFileNameString = filename,
              !.mFileNameUrl = fromUserInput(filename)]

setGrabMode(s, mode) ==
    Emit([s EXCEPT !.grabMode = mode], "setGrabMode", mode, 0)

setCapturePointer(s, b) ==
    Emit([s EXCEPT !.capturePointer = b], "setCapturePointer", BoolStr(b), 0)

setCaptureDecorations(s, b) ==
    Emit([s EXCEPT !.captureDecorations = b], "setCaptureDecorations", BoolStr(b), 0)

\* QTimer::singleShot(msec, mImageGrabber, &ImageGrabber::doImageGrab)
singleShotGrab(s, msec) ==
    Emit([s EXCEPT !.timers = @ + 1], "singleShot", "doImageGrab", msec)

initGui(s) ==
    IF ~s.isGuiInited
    THEN LET s1 == Emit([s EXCEPT !.mMainWindow = "KSMainWindow",
                                  !.nWindows = @ + 1],
                        "new KSMainWindow", BoolStr(s.onClickGrabSupported), 0)
             s2 == Emit(s1, "connect", "newScreenshotRequest", 0)
             s3 == Emit(s2, "connect", "dragAndDropRequest", 0)
             s4 == [s3 EXCEPT !.isGuiInited = TRUE]
         IN  Emit([s4 EXCEPT !.queued = @ + 1], "invokeMethod", "doImageGrab", 0)
    ELSE s

\* faulty variant: no fallback to the dummy grabber
chooseGrabber_noFallback(xcbFound, platform) ==
    IF xcbFound /\ platform = "xcb" THEN "X11ImageGrabber"
    ELSE IF platform = "wayland" THEN "KWinWaylandImageGrabber"
    ELSE "nullptr"

\* lines 65-76: the grabber class for the platform
chooseGrabber(xcbFound, platform) ==
    IF xcbFound /\ platform = "xcb" THEN "X11ImageGrabber"
    ELSE IF platform = "wayland" THEN "KWinWaylandImageGrabber"
    ELSE "DummyImageGrabber"

\* lines 82-84
clampDelay(onClick, delayMsec) ==
    IF ~onClick /\ isNegative64(delayMsec) THEN Q64(0, 0) ELSE delayMsec

\* line 97: the qint64 sum narrowed to int
backgroundMsec(compositing, delayMsec) ==
    narrowSum(settleDelay(compositing), delayMsec)

\* faulty variant: the BackgroundMode case falls through into GuiMode
dispatchStartMode_fallthrough(s, startMode, compositing, delayMsec) ==
    CASE startMode = "DBusMode" -> s
      [] startMode = "BackgroundMode" ->
            initGui(singleShotGrab(s, backgroundMsec(compositing, delayMsec)))
      [] startMode = "GuiMode" -> initGui(s)

\* lines 93-104
dispatchStartMode(s, startMode, compositing, delayMsec) ==
    CASE startMode = "DBusMode" -> s
      [] startMode = "BackgroundMode" ->
            singleShotGrab(s, backgroundMsec(compositing, delayMsec))
      [] startMode = "GuiMode" -> initGui(s)

\* the state the member initialisers leave (lines 47-53)
Constructed(startMode, notifyOnGrab) ==
    [ mStartMode |-> startMode, mNotify |-> notifyOnGrab,
      mImageGrabber |-> "nullptr", mMainWindow |-> "nullptr",
      isGuiInited |-> FALSE, mFileNameString |-> <<>>,
      mFileNameUrl |-> InvalidUrl, grabMode |-> "FullScreen",
      capturePointer |-> FALSE, captureDecorations |-> FALSE,
      onClickGrabSupported |-> FALSE, mPixmap |-> "none",
      timers |-> 0, queued |-> 0, grabbing |-> 0, saves |-> 0,
      notifyConns |-> 0, notifs |-> [fresh |-> 0, opened |-> 0],
      doneTimers |-> 0, nGrabbers |-> 0, nWindows |-> 0, calls |-> 0,
      budget |-> 0, switched |-> [from |-> "none", pending |-> 0],
      op |-> [name |-> "none"], out |-> <<>> ]

\* env: what the build, the session and the configuration file answer
SpectacleCore(startMode, mode, saveFileName, delayMsec, notifyOnGrab, env) ==
    LET s0 == Enter(Constructed(startMode, notifyOnGrab),
                    [name |-> "SpectacleCore", mode |-> startMode,
                     startMode |-> startMode,
                     grabMode |-> mode, saveFileName |-> saveFileName,
                     delayMsec |-> delayMsec, notifyOnGrab |-> notifyOnGrab,
                     env |-> env])
        s1 == IF saveFileName # <<>>
              THEN setFilename(s0, absoluteFilePath(saveFileName))
              ELSE s0
        s2 == Emit([s1 EXCEPT !.mImageGrabber = chooseGrabber(env.xcbFound, env.platform),
                              !.onClickGrabSupported = env.onClick,
                              !.nGrabbers = @ + 1],
                   "new", chooseGrabber(env.xcbFound, env.platform), 0)
        s3 == setGrabMode(s2, mode)
        s4 == setCapturePointer(s3, env.includePointer)
        s5 == setCaptureDecorations(s4, env.includeDecorations)
    IN  dispatchStartMode(s5, startMode, env.compositing,
                          clampDelay(env.onClick, delayMsec))

\* faulty variant: the window is created on every call, whatever the start mode
dbusStartAgent_alwaysNewWindow(s) ==
    LET s1 == Emit(s, "setQuitOnLastWindowClosed", "true", 0)
        s2 == Emit([s1 EXCEPT !.mStartMode = "GuiMode",
                              !.mMainWindow = "KSMainWindow",
                              !.nWindows = @ + 1,
                              !.isGuiInited = TRUE],
                   "new KSMainWindow", BoolStr(s.onClickGrabSupported), 0)
    IN  Emit([s2 EXCEPT !.queued = @ + 1], "invokeMethod", "doImageGrab", 0)

\* faulty variant: the mode is switched without starting the GUI
dbusStartAgent_noInit(s) ==
    LET s1 == Emit(s, "setQuitOnLastWindowClosed", "true", 0)
    IN  IF s1.mStartMode # "GuiMode"
        THEN [s1 EXCEPT !.mStartMode = "GuiMode"]
        ELSE s1

dbusStartAgent(s) ==
    LET s1 == Emit(s, "setQuitOnLastWindowClosed", "true", 0)
    IN  IF s1.mStartMode # "GuiMode"
        THEN initGui([s1 EXCEPT !.mStartMode = "GuiMode"])
        ELSE s1

\* line 167: timeout + msec in int; ub is what a build yields when it overflows
timerDelay(timeout, msec, ub) ==
    IF Overflows(msec, timeout) THEN ub ELSE timeout + msec

\* faulty variant: no return after doOnClickGrab
takeNewScreenshot_noReturn(s, mode, timeout, includePointer, includeDecorations, compositing, ub) ==
    LET s1 == setGrabMode(s, mode)
        s2 == setCapturePointer(s1, includePointer)
        s3 == setCaptureDecorations(s2, includeDecorations)
        s4 == IF timeout < 0
              THEN Emit([s3 EXCEPT !.grabbing = @ + 1], "doOnClickGrab", "", 0)
              ELSE s3
    IN  singleShotGrab(s4, timerDelay(timeout, settleDelay(compositing), ub))

takeNewScreenshot(s, mode, timeout, includePointer, includeDecorations, compositing, ub) ==
    LET s1 == setGrabMode(s, mode)
        s2 == setCapturePointer(s1, includePointer)
        s3 == setCaptureDecorations(s2, includeDecorations)
    IN  IF timeout < 0
        THEN Emit([s3 EXCEPT !.grabbing = @ + 1], "doOnClickGrab", "", 0)
        ELSE singleShotGrab(s3, timerDelay(timeout, settleDelay(compositing), ub))

\* faulty variant: the message box is shown in every start mode
showErrorMessage_alwaysBox(s, errString) ==
    Emit(Emit(s, "qDebug", errString, 0), "KMessageBox::error", errString, 0)

showErrorMessage(s, errString) ==
    LET s1 == Emit(s, "qDebug", errString, 0)
    IN  IF s1.mStartMode = "GuiMode"
        THEN Emit(s1, "KMessageBox::error", errString, 0)
        ELSE s1

\* mMainWindow-> ... : a call through the pointer
viaMainWindow(s, what, arg) ==
    IF s.mMainWindow = "nullptr"
    THEN Emit(s, "null dereference", what, 0)
    ELSE Emit(s, what, arg, 0)

\* faulty variant: the file name is used in every start mode
savePath_anyMode(s) ==
    IF s.mFileNameUrl.valid /\ isLocalFile(s.mFileNameUrl)
    THEN s.mFileNameUrl
    ELSE InvalidUrl

\* lines 191-192
savePath(s) ==
    IF s.mStartMode = "BackgroundMode" /\ s.mFileNameUrl.valid /\ isLocalFile(s.mFileNameUrl)
    THEN s.mFileNameUrl
    ELSE InvalidUrl

\* faulty variant: only DBusMode saves, BackgroundMode goes to the main window
screenshotUpdated_backgroundToWindow(s, pixmap) ==
    LET s1 == Emit([s EXCEPT !.mPixmap = pixmap], "setPixmap", pixmap, 0)
    IN  IF s1.mStartMode = "DBusMode"
        THEN LET s2 == IF s1.mNotify
                       THEN Emit([s1 EXCEPT !.notifyConns = @ + 1],
                                 "connect", "imageSaved->doNotify", 0)
                       ELSE s1
                 s3 == Emit([s2 EXCEPT !.saves = @ + 1], "doSave", savePath(s2), 0)
             IN  IF ~s3.mNotify THEN Emit(s3, "allDone", "", 0) ELSE s3
        ELSE viaMainWindow(s1, "setScreenshotAndShow", pixmap)

\* faulty variant: allDone is emitted whether or not a notification is shown
screenshotUpdated_alwaysDone(s, pixmap) ==
    LET s1 == Emit([s EXCEPT !.mPixmap = pixmap], "setPixmap", pixmap, 0)
    IN  IF s1.mStartMode \in {"BackgroundMode", "DBusMode"}
        THEN LET s2 == IF s1.mNotify
                       THEN Emit([s1 EXCEPT !.notifyConns = @ + 1],
                                 "connect", "imageSaved->doNotify", 0)
                       ELSE s1
                 s3 == Emit([s2 EXCEPT !.saves = @ + 1], "doSave", savePath(s2), 0)
             IN  Emit(s3, "allDone", "", 0)
        ELSE viaMainWindow(s1, "setScreenshotAndShow", pixmap)

screenshotUpdated(s, pixmap) ==
    LET s1 == Emit([s EXCEPT !.mPixmap = pixmap], "setPixmap", pixmap, 0)
    IN  IF s1.mStartMode \in {"BackgroundMode", "DBusMode"}
        THEN LET s2 == IF s1.mNotify
                       THEN Emit([s1 EXCEPT !.notifyConns = @ + 1],
                                 "connect", "imageSaved->doNotify", 0)
                       ELSE s1
                 s3 == Emit([s2 EXCEPT !.saves = @ + 1], "doSave", savePath(s2), 0)
             IN  IF ~s3.mNotify THEN Emit(s3, "allDone", "", 0) ELSE s3
        ELSE viaMainWindow(s1, "setScreenshotAndShow", pixmap)

\* faulty variant: a failed capture is scheduled again
screenshotFailed_retry(s) ==
    CASE s.mStartMode = "BackgroundMode" ->
            LET s1 == showErrorMessage(s, "Screenshot capture canceled or failed")
            IN  Emit(Emit(s1, "grabFailed", "", 0), "allDone", "", 0)
      [] s.mStartMode = "DBusMode" ->
            Emit(Emit(s, "grabFailed", "", 0), "allDone", "", 0)
      [] s.mStartMode = "GuiMode" ->
            singleShotGrab(viaMainWindow(s, "show", ""), SettlePlain)

\* faulty variant: the BackgroundMode case ends with a break
screenshotFailed_break(s) ==
    CASE s.mStartMode = "BackgroundMode" ->
            showErrorMessage(s, "Screenshot capture canceled or failed")
      [] s.mStartMode = "DBusMode" ->
            Emit(Emit(s, "grabFailed", "", 0), "allDone", "", 0)
      [] s.mStartMode = "GuiMode" ->
            viaMainWindow(s, "show", "")

screenshotFailed(s) ==
    CASE s.mStartMode = "BackgroundMode" ->
            LET s1 == showErrorMessage(s, "Screenshot capture canceled or failed")
            IN  Emit(Emit(s1, "grabFailed", "", 0), "allDone", "", 0)
      [] s.mStartMode = "DBusMode" ->
            Emit(Emit(s, "grabFailed", "", 0), "allDone", "", 0)
      [] s.mStartMode = "GuiMode" ->
            viaMainWindow(s, "show", "")

\* the title the switch of doNotify sets, for the five modes it names
notifyTitle(mode) ==
    CASE mode = "FullScreen" -> "Full Screen Captured"
      [] mode = "CurrentScreen" -> "Current Screen Captured"
      [] mode = "ActiveWindow" -> "Active Window Captured"
      [] mode = "WindowUnderCursor" -> "Window Under Cursor Captured"
      [] mode = "RectangularRegion" -> "Rectangular Region Captured"

PicturesLocation == <<"/", "pictures">>

\* savedAt.adjusted(RemoveFilename | StripTrailingSlash).path()
folderOf(url) == SubSeq(url.path, 1, Len(url.path) - 2)

doNotify(s, savedAt) ==
    LET s1 == Emit([s EXCEPT !.notifs.fresh = @ + 1], "new KNotification", "newScreenshotSaved", 0)
        \* default: break, no title is set for any other grab mode
        s2 == IF s1.grabMode \in GrabModes
              THEN Emit(s1, "setTitle", notifyTitle(s1.grabMode), 0)
              ELSE s1
        s3 == Emit(s2, "setText",
                   IF folderOf(savedAt) = PicturesLocation
                   THEN "saved to your Pictures folder" ELSE "saved to path", 0)
        s4 == Emit(s3, "setActions", "Open", 0)
        s5 == Emit(s4, "setUrls", savedAt, 0)
        s6 == Emit(s5, "connect", "action1Activated", 0)
        s7 == Emit(s6, "connect", "destroyed->allDone", 0)
    IN  Emit(s7, "sendEvent", "", 0)

doCopyPath(s, savedAt, copySaveLocation) ==
    IF copySaveLocation
    THEN Emit(s, "clipboard setText", savedAt.path, 0)
    ELSE s

RECURSIVE doNotifyTimes(_, _, _)
\* imageSaved runs doNotify once per connection made
doNotifyTimes(s, savedAt, n) ==
    IF n = 0 THEN s ELSE doNotifyTimes(doNotify(s, savedAt), savedAt, n - 1)

\* the slots connected to ExportManager::imageSaved, in connection order
imageSaved(s, savedAt, copySaveLocation) ==
    doNotifyTimes(doCopyPath(s, savedAt, copySaveLocation), savedAt, s.notifyConns)

\* the lambda connected to KNotification::action1Activated (lines 257-260)
action1Activated(s, savedAt) ==
    LET s1 == Emit(s, "new KRun", savedAt, 0)
    IN  Emit([s1 EXCEPT !.doneTimers = @ + 1], "singleShot", "allDone", OpenDelay)

----------------------------------------------------------------------------
(* Inputs *)

Platforms == {"xcb", "wayland", "offscreen"}

\* includePointer and includeDecorations are two entries of the GuiConfig
\* group, each read on its own (default true)
Envs == { [xcbFound |-> x, platform |-> p, onClick |-> c, compositing |-> a,
           includePointer |-> g, includeDecorations |-> d] :
          x \in BOOLEAN, p \in Platforms, c \in BOOLEAN, a \in BOOLEAN,
          g \in BOOLEAN, d \in BOOLEAN }

\* an X11 session of a build with XCB, compositing active, and the defaults of
\* the two configuration entries
DefaultEnv == [xcbFound |-> TRUE, platform |-> "xcb", onClick |-> TRUE,
               compositing |-> TRUE, includePointer |-> TRUE,
               includeDecorations |-> TRUE]

\* the grab mode, the file name and the delay of a start without options
DefaultGrabMode == "FullScreen"
DefaultFileName == <<>>
DefaultDelay == Q64(0, 0)

SavedUrls == { [valid |-> TRUE, scheme |-> "file",
                path |-> <<"/", "pictures", "/", "Screenshot.png">>],
               [valid |-> TRUE, scheme |-> "file",
                path |-> <<"/", "tmp", "/", "shot.png">>] }

\* what timeout + msec may be when it overflows the int
OverflowResults(timeout, msec) ==
    IF Overflows(msec, timeout) THEN {AddInt32(msec, timeout), 0} ELSE {0}

Pending == timers + queued + grabbing

----------------------------------------------------------------------------
(* Init: the state the constructor leaves *)

Init ==
    \/ \E startMode \in StartModes, mode \in GrabModeInputs,
          saveFileName \in FileNameInputs, delayMsec \in DelayInputs,
          notifyOnGrab \in BOOLEAN, env \in Envs :
           Starts([SpectacleCore(startMode, mode, saveFileName, delayMsec,
                                 notifyOnGrab, env)
                   EXCEPT !.budget = MaxCallsAnyEnv])
    \/ \E startMode \in StartModes, notifyOnGrab \in BOOLEAN :
           Starts([SpectacleCore(startMode, DefaultGrabMode, DefaultFileName,
                                 DefaultDelay, notifyOnGrab, DefaultEnv)
                   EXCEPT !.budget = MaxCalls])

(* Calls of the public slots and property setters *)

DbusStartAgent ==
    /\ calls < budget
    /\ Becomes(dbusStartAgent(
           Enter([St EXCEPT !.calls = @ + 1,
                            !.switched = IF mStartMode # "GuiMode"
                                         THEN [from |-> mStartMode, pending |-> Pending]
                                         ELSE @],
                 [name |-> "dbusStartAgent", mode |-> mStartMode])))

TakeNewScreenshot ==
    /\ calls < budget
    /\ \E req \in RequestInputs, timeout \in TimeoutInputs, compositing \in BOOLEAN :
         \E ub \in OverflowResults(timeout, settleDelay(compositing)) :
            Becomes(takeNewScreenshot(
                Enter([St EXCEPT !.calls = @ + 1],
                      [name |-> "takeNewScreenshot", mode |-> mStartMode,
                       grabMode |-> req[1], timeout |-> timeout,
                       includePointer |-> req[2],
                       includeDecorations |-> req[3],
                       compositing |-> compositing]),
                req[1], timeout, req[2], req[3], compositing, ub))

\* the WRITE accessor of the filename property
SetFilename ==
    /\ calls < budget
    /\ \E filename \in SetFilenameInputs :
         Becomes(setFilename(Enter([St EXCEPT !.calls = @ + 1],
                                   [name |-> "setFilename", mode |-> mStartMode,
                                    filename |-> filename]), filename))

\* the public setter of the grab mode
SetGrabMode ==
    /\ calls < budget
    /\ \E mode \in SetGrabModeInputs :
         Becomes(setGrabMode(Enter([St EXCEPT !.calls = @ + 1],
                                   [name |-> "setGrabMode", mode |-> mStartMode,
                                    grabMode |-> mode]), mode))

(* Event-loop deliveries *)

\* a single-shot timer fires: ImageGrabber::doImageGrab starts
TimerFires ==
    /\ timers > 0
    /\ Becomes(Emit(Enter([St EXCEPT !.timers = @ - 1, !.grabbing = @ + 1],
                          [name |-> "timeout", mode |-> mStartMode]),
                    "doImageGrab", "", 0))

\* the queued call of initGui is delivered
QueuedCall ==
    /\ queued > 0
    /\ Becomes(Emit(Enter([St EXCEPT !.queued = @ - 1, !.grabbing = @ + 1],
                          [name |-> "queued call", mode |-> mStartMode]),
                    "doImageGrab", "", 0))

\* ImageGrabber::pixmapChanged
PixmapChanged ==
    /\ grabbing > 0
    /\ \E pixmap \in Pixmaps :
         Becomes(screenshotUpdated(
             Enter([St EXCEPT !.grabbing = @ - 1],
                   [name |-> "screenshotUpdated", mode |-> mStartMode,
                    pixmap |-> pixmap]), pixmap))

\* ImageGrabber::imageGrabFailed
ImageGrabFailed ==
    /\ grabbing > 0
    /\ Becomes(screenshotFailed(
           Enter([St EXCEPT !.grabbing = @ - 1],
                 [name |-> "screenshotFailed", mode |-> mStartMode])))

\* ExportManager::imageSaved
ImageSaved ==
    /\ saves > 0
    /\ notifs.fresh + notifs.opened + notifyConns <= MaxNotifs
    /\ \E savedAt \in SavedUrls, copySaveLocation \in BOOLEAN :
         Becomes(imageSaved(
             Enter([St EXCEPT !.saves = @ - 1],
                   [name |-> "imageSaved", mode |-> mStartMode]),
             savedAt, copySaveLocation))

\* ExportManager::errorMessage: the save failed
SaveFailed ==
    /\ saves > 0
    /\ Becomes(showErrorMessage(
           Enter([St EXCEPT !.saves = @ - 1],
                 [name |-> "showErrorMessage", mode |-> mStartMode]),
           "save failed"))

\* ExportManager::errorMessage or SpectacleCore::errorMessage, emitted with
\* no save pending
ErrorMessage ==
    /\ calls < budget
    /\ \E errString \in ErrorInputs :
         Becomes(showErrorMessage(
             Enter([St EXCEPT !.calls = @ + 1],
                   [name |-> "showErrorMessage", mode |-> mStartMode]),
             errString))

\* ExportManager::forceNotify
ForceNotify ==
    /\ calls < budget
    /\ notifs.fresh + notifs.opened < MaxNotifs
    /\ \E savedAt \in SavedUrls :
         Becomes(doNotify(Enter([St EXCEPT !.calls = @ + 1],
                                [name |-> "forceNotify", mode |-> mStartMode]),
                          savedAt))

\* the user presses "Open" on a notification
NotifyOpen ==
    /\ notifs.fresh > 0
    /\ doneTimers < MaxNotifs
    /\ \E savedAt \in SavedUrls :
         Becomes(action1Activated(
             Enter([St EXCEPT !.notifs.fresh = @ - 1, !.notifs.opened = @ + 1],
                   [name |-> "action1Activated", mode |-> mStartMode]), savedAt))

\* a notification is dismissed and destroyed: destroyed -> allDone
NotifyDestroyed ==
    /\ notifs.fresh + notifs.opened > 0
    /\ \E k \in {"fresh", "opened"} :
         /\ notifs[k] > 0
         /\ Becomes(Emit(Enter([St EXCEPT !.notifs[k] = @ - 1],
                               [name |-> "destroyed", mode |-> mStartMode]),
                         "allDone", "", 0))

\* the timer started by "Open" fires
AllDoneTimer ==
    /\ doneTimers > 0
    /\ Becomes(Emit(Enter([St EXCEPT !.doneTimers = @ - 1],
                          [name |-> "allDone timer", mode |-> mStartMode]),
                    "allDone", "", 0))

Next ==
    \/ DbusStartAgent
    \/ TakeNewScreenshot
    \/ SetFilename
    \/ SetGrabMode
    \/ TimerFires
    \/ QueuedCall
    \/ PixmapChanged
    \/ ImageGrabFailed
    \/ ImageSaved
    \/ SaveFailed
    \/ ErrorMessage
    \/ ForceNotify
    \/ NotifyOpen
    \/ NotifyDestroyed
    \/ AllDoneTimer

Spec == Init /\ [][Next]_vars

----------------------------------------------------------------------------
(* Shorthands of the properties below *)

\* the single-shot timers of a handler that call doImageGrab
GrabTimers(s) == {i \in DOMAIN s : s[i].what = "singleShot" /\ s[i].arg = "doImageGrab"}

\* the handler scheduled or started a capture
CapturesIn(s) == Cardinality(GrabTimers(s)) + Count(s, "invokeMethod") + Count(s, "doOnClickGrab")

NoWindowModes == {"BackgroundMode", "DBusMode"}

----------------------------------------------------------------------------
(* C1: at most one capture request is pending at any time: the requests      *)
(* scheduled (timer or queued call) or started, and not yet answered by      *)
(* pixmapChanged or imageGrabFailed, number at most one.                     *)
C1_AtMostOnePending == Pending <= 1

(* C2: while the start mode is BackgroundMode no main window exists or is    *)
(* shown, and every pixmap delivered to screenshotUpdated in that mode is    *)
(* first handed to the export manager and then saved with exactly one doSave *)
C2_BackgroundSavesWithoutWindow ==
    /\ mStartMode = "BackgroundMode" =>
          /\ mMainWindow = "nullptr"
          /\ nWindows = 0
          /\ ~isGuiInited
          /\ ~Has(out, "new KSMainWindow")
          /\ ~Has(out, "show")
          /\ ~Has(out, "setScreenshotAndShow")
    /\ (op.name = "screenshotUpdated" /\ op.mode = "BackgroundMode") =>
          /\ mPixmap = op.pixmap
          /\ Pos(out, "setPixmap") = 1
          /\ out[1].arg = op.pixmap
          /\ Count(out, "doSave") = 1
          /\ Pos(out, "doSave") > Pos(out, "setPixmap")
          /\ saves >= 1

C2_Witness ==
    /\ op.name = "screenshotUpdated"
    /\ op.mode = "BackgroundMode"
    /\ Has(out, "doSave")
    /\ mMainWindow = "nullptr"

(* C3, as stated: every capture failure and every save failure is shown as   *)
(* a message box when the start mode is GuiMode and written as a debug log   *)
(* line when it is BackgroundMode.                                           *)
C3_EveryErrorSurfaced ==
    op.name \in {"screenshotFailed", "showErrorMessage"} =>
        /\ op.mode = "GuiMode" => Has(out, "KMessageBox::error")
        /\ op.mode = "BackgroundMode" => Has(out, "qDebug")

(* C3, amended: a save failure is always written as a debug log line and is  *)
(* shown as a message box exactly when the start mode is GuiMode; a capture  *)
(* failure is written as a debug log line exactly when the start mode is     *)
(* BackgroundMode and never shown as a message box (GuiMode shows the main   *)
(* window again, DBusMode only emits grabFailed and allDone).                *)
C3_ErrorRouting ==
    /\ op.name = "showErrorMessage" =>
          /\ Count(out, "qDebug") = 1
          /\ Has(out, "KMessageBox::error") <=> op.mode = "GuiMode"
    /\ op.name = "screenshotFailed" =>
          /\ Has(out, "qDebug") <=> op.mode = "BackgroundMode"
          /\ ~Has(out, "KMessageBox::error")
          /\ op.mode = "GuiMode" => Whats(out) = <<"show">>

C3_Witness ==
    /\ op.name = "screenshotFailed"
    /\ op.mode = "GuiMode"
    /\ Has(out, "show")
    /\ ~Has(out, "KMessageBox::error")

(* C4: the constructor dispatches on the start mode and issues one capture   *)
(* call: BackgroundMode schedules exactly one single-shot timer calling      *)
(* doImageGrab, GuiMode creates the main window and queues exactly one       *)
(* doImageGrab, DBusMode schedules no capture.                               *)
C4_ConstructionDispatch ==
    op.name = "SpectacleCore" =>
        /\ mStartMode = op.startMode
        /\ grabbing = 0
        /\ op.startMode = "BackgroundMode" =>
              /\ timers = 1 /\ queued = 0
              /\ Cardinality(GrabTimers(out)) = 1
              /\ Count(out, "singleShot") = 1
              /\ Count(out, "invokeMethod") = 0
              /\ mMainWindow = "nullptr"
        /\ op.startMode = "GuiMode" =>
              /\ timers = 0 /\ queued = 1
              /\ Count(out, "invokeMethod") = 1
              /\ Count(out, "singleShot") = 0
              /\ Count(out, "new KSMainWindow") = 1
              /\ mMainWindow = "KSMainWindow" /\ nWindows = 1
        /\ op.startMode = "DBusMode" =>
              /\ timers = 0 /\ queued = 0
              /\ CapturesIn(out) = 0
              /\ mMainWindow = "nullptr" /\ nWindows = 0

C4_Witness ==
    /\ op.name = "SpectacleCore"
    /\ op.startMode = "GuiMode"
    /\ queued = 1
    /\ mMainWindow = "KSMainWindow"

(* C5: every timer-scheduled capture waits at least the settle delay: the    *)
(* delay the BackgroundMode constructor (any delayMsec) and takeNewScreenshot*)
(* (any timeout >= 0) pass to the single-shot timer is the requested delay   *)
(* plus the settle delay (200 ms composited, 50 ms otherwise) and is never   *)
(* smaller than the settle delay.                                            *)
C5_SettleDelayIsMinimum ==
    /\ (op.name = "SpectacleCore" /\ op.startMode = "BackgroundMode") =>
          \A i \in GrabTimers(out) :
              /\ out[i].n >= settleDelay(op.env.compositing)
              /\ ~isNegative64(op.delayMsec) =>
                    /\ op.delayMsec.hi = 0
                    /\ out[i].n - settleDelay(op.env.compositing) = op.delayMsec.lo
    /\ (op.name = "takeNewScreenshot" /\ op.timeout >= 0) =>
          \A i \in GrabTimers(out) :
              /\ out[i].n >= settleDelay(op.compositing)
              /\ out[i].n - settleDelay(op.compositing) = op.timeout

(* C6: the grabber is chosen by platform with a fixed priority and is never *)
(* null: X11 with XCB built in gets the X11 grabber, otherwise Wayland gets  *)
(* the KWin Wayland grabber, otherwise the dummy grabber; exactly one grabber*)
(* is created, and the requested grab mode is set on it before any capture   *)
(* is scheduled.                                                             *)
C6_GrabberByPlatform ==
    /\ mImageGrabber \in Grabbers
    /\ nGrabbers = 1
    /\ op.name = "SpectacleCore" =>
          /\ (op.env.xcbFound /\ op.env.platform = "xcb") =>
                mImageGrabber = "X11ImageGrabber"
          /\ (~(op.env.xcbFound /\ op.env.platform = "xcb") /\ op.env.platform = "wayland") =>
                mImageGrabber = "KWinWaylandImageGrabber"
          /\ (~(op.env.xcbFound /\ op.env.platform = "xcb") /\ op.env.platform # "wayland") =>
                mImageGrabber = "DummyImageGrabber"
          /\ Count(out, "new") = 1
          /\ out[Pos(out, "new")].arg = mImageGrabber
          /\ Count(out, "setGrabMode") = 1
          /\ out[Pos(out, "setGrabMode")].arg = op.grabMode
          /\ grabMode = op.grabMode
          /\ Pos(out, "new") < Pos(out, "setGrabMode")
          /\ \A i \in DOMAIN out :
                out[i].what \in {"singleShot", "invokeMethod", "doOnClickGrab"} =>
                    Pos(out, "setGrabMode") < i

C6_Witness ==
    /\ op.name = "SpectacleCore"
    /\ ~op.env.xcbFound
    /\ op.env.platform = "xcb"
    /\ mImageGrabber = "DummyImageGrabber"
    /\ CapturesIn(out) = 1

(* C7: there is no retry: the handlers of a capture failure and of a save    *)
(* failure schedule and start no capture, and the number of pending capture  *)
(* requests grows only in a takeNewScreenshot or dbusStartAgent call.        *)
C7_NoRetry ==
    [][ /\ Pending' > Pending =>
              op'.name \in {"takeNewScreenshot", "dbusStartAgent"}
        /\ op'.name = "screenshotFailed" =>
              /\ timers' = timers /\ queued' = queued
              /\ grabbing' = grabbing - 1
              /\ CapturesIn(out') = 0
        /\ op'.name = "showErrorMessage" =>
              /\ timers' = timers /\ queued' = queued
              /\ grabbing' = grabbing
              /\ CapturesIn(out') = 0
      ]_vars

C7_Witness ==
    /\ op.name = "screenshotFailed"
    /\ Has(out, "grabFailed")
    /\ Pending = 0

(* C8, as stated: in BackgroundMode and DBusMode with notify-on-grab enabled *)
(* allDone is emitted only after the user dismissed the notification or      *)
(* pressed "Open"; with notify-on-grab disabled screenshotUpdated emits      *)
(* allDone immediately after doSave.                                         *)
C8_AllDoneOnlyAfterNotification ==
    /\ (mNotify /\ op.mode \in NoWindowModes /\ Has(out, "allDone")) =>
          op.name \in {"destroyed", "allDone timer"}
    /\ (~mNotify /\ op.name = "screenshotUpdated" /\ op.mode \in NoWindowModes) =>
          /\ Count(out, "allDone") = 1
          /\ Pos(out, "allDone") = Pos(out, "doSave") + 1

(* C8, amended: in BackgroundMode and DBusMode with notify-on-grab enabled   *)
(* screenshotUpdated never emits allDone; allDone then comes only from a     *)
(* dismissed notification, from the timer "Open" started, or from            *)
(* screenshotFailed when the capture failed.  With notify-on-grab disabled   *)
(* screenshotUpdated emits allDone once, immediately after doSave.  The      *)
(* allDone timer is started only by "Open".                                  *)
C8_AllDoneAfterNotifyOrFailure ==
    /\ [] /\ (mNotify /\ op.mode \in NoWindowModes /\ Has(out, "allDone")) =>
                op.name \in {"destroyed", "allDone timer", "screenshotFailed"}
          /\ (mNotify /\ op.name = "screenshotUpdated" /\ op.mode \in NoWindowModes) =>
                /\ ~Has(out, "allDone")
                /\ Has(out, "doSave")
                /\ notifyConns >= 1
          /\ (~mNotify /\ op.name = "screenshotUpdated" /\ op.mode \in NoWindowModes) =>
                /\ Count(out, "allDone") = 1
                /\ Pos(out, "allDone") = Pos(out, "doSave") + 1
                /\ Pos(out, "allDone") = Len(out)
    /\ [][ doneTimers' > doneTimers => op'.name = "action1Activated" ]_vars

C8_Witness ==
    /\ mNotify
    /\ op.name = "destroyed"
    /\ op.mode = "DBusMode"
    /\ Has(out, "allDone")
    /\ mPixmap # "none"

(* C9: screenshotFailed acts by start mode: BackgroundMode reports the error *)
(* "Screenshot capture canceled or failed", then emits grabFailed, then      *)
(* allDone; DBusMode emits grabFailed then allDone and reports no error;     *)
(* GuiMode shows the main window and emits neither.                          *)
C9_ScreenshotFailedByMode ==
    op.name = "screenshotFailed" =>
        /\ op.mode = "BackgroundMode" =>
              /\ Whats(out) = <<"qDebug", "grabFailed", "allDone">>
              /\ out[1].arg = "Screenshot capture canceled or failed"
        /\ op.mode = "DBusMode" =>
              Whats(out) = <<"grabFailed", "allDone">>
        /\ op.mode = "GuiMode" =>
              Whats(out) = <<"show">>

C9_Witness ==
    /\ op.name = "screenshotFailed"
    /\ op.mode = "BackgroundMode"
    /\ Has(out, "qDebug")
    /\ Has(out, "allDone")

(* C10: takeNewScreenshot first applies the grab mode, the pointer flag and  *)
(* the decorations flag to the grabber, then takes exactly one path: for     *)
(* timeout < 0 it calls doOnClickGrab and schedules no timer, for            *)
(* timeout >= 0 it schedules exactly one single-shot doImageGrab and does    *)
(* not call doOnClickGrab.                                                   *)
C10_TakeNewScreenshotPaths ==
    [][ op'.name = "takeNewScreenshot" =>
          /\ Len(out') = 4
          /\ SubSeq(Whats(out'), 1, 3) =
                <<"setGrabMode", "setCapturePointer", "setCaptureDecorations">>
          /\ out'[1].arg = op'.grabMode
          /\ out'[2].arg = BoolStr(op'.includePointer)
          /\ out'[3].arg = BoolStr(op'.includeDecorations)
          /\ grabMode' = op'.grabMode
          /\ capturePointer' = op'.includePointer
          /\ captureDecorations' = op'.includeDecorations
          /\ queued' = queued
          /\ IF op'.timeout < 0
             THEN /\ out'[4].what = "doOnClickGrab"
                  /\ grabbing' = grabbing + 1
                  /\ timers' = timers
             ELSE /\ out'[4].what = "singleShot"
                  /\ out'[4].arg = "doImageGrab"
                  /\ timers' = timers + 1
                  /\ grabbing' = grabbing
      ]_vars

C10_Witness ==
    /\ op.name = "takeNewScreenshot"
    /\ op.timeout < 0
    /\ Has(out, "doOnClickGrab")
    /\ ~Has(out, "singleShot")

\* the state of the core and of its collaborators, without the record of the last handler
core == << mStartMode, mNotify, mImageGrabber, mMainWindow, isGuiInited,
           mFileNameString, mFileNameUrl, grabMode, capturePointer,
           captureDecorations, onClickGrabSupported, mPixmap, timers, queued,
           grabbing, saves, notifyConns, notifs, doneTimers, nGrabbers,
           nWindows >>

(* C11: dbusStartAgent is idempotent with respect to GUI start-up: the main  *)
(* window is created at most once and the initial queued doImageGrab is      *)
(* issued at most once over any sequence of calls, also on a core built in   *)
(* GuiMode; a call made when the start mode is already GuiMode changes no    *)
(* core state.                                                               *)
C11_DbusStartAgentIdempotent ==
    /\ [] /\ nWindows <= 1
          /\ Count(out, "new KSMainWindow") <= 1
          /\ Count(out, "invokeMethod") <= 1
          /\ Has(out, "invokeMethod") <=> Has(out, "new KSMainWindow")
    /\ [][ /\ Has(out', "invokeMethod") => (nWindows = 0 /\ nWindows' = 1)
           /\ nWindows' >= nWindows
           /\ (op'.name = "dbusStartAgent" /\ mStartMode = "GuiMode") =>
                 /\ core' = core
                 /\ Whats(out') = <<"setQuitOnLastWindowClosed">>
           /\ (op'.name = "dbusStartAgent" /\ mStartMode # "GuiMode") =>
                 /\ mStartMode' = "GuiMode"
                 /\ nWindows' = 1
                 /\ queued' = queued + 1
      ]_vars

\* a second call, after the first one switched a DBusMode core to GuiMode
C11_Witness ==
    /\ op.name = "dbusStartAgent"
    /\ op.mode = "GuiMode"
    /\ switched.from = "DBusMode"
    /\ calls = 2
    /\ nWindows = 1
    /\ Whats(out) = <<"setQuitOnLastWindowClosed">>

\* a call on a core constructed in GuiMode
C11_GuiConstructedCall ==
    /\ op.name = "dbusStartAgent"
    /\ op.mode = "GuiMode"
    /\ switched.from = "none"
    /\ nWindows = 1
    /\ Whats(out) = <<"setQuitOnLastWindowClosed">>

(* C12: the save target of screenshotUpdated is the user-supplied file name *)
(* only when the start mode is BackgroundMode and the file-name URL is valid *)
(* and a local file; in every other case (DBusMode, no file name, invalid or *)
(* non-local URL) doSave is called with an empty URL.                        *)
C12_SaveTarget ==
    (op.name = "screenshotUpdated" /\ op.mode \in NoWindowModes) =>
        /\ Count(out, "doSave") = 1
        /\ LET target == out[Pos(out, "doSave")].arg
           IN  /\ (op.mode = "BackgroundMode" /\ mFileNameUrl.valid
                      /\ mFileNameUrl.scheme = "file") =>
                     /\ target = mFileNameUrl
                     /\ target.path = mFileNameString
                     /\ target.valid
               /\ op.mode = "DBusMode" => target = InvalidUrl
               /\ mFileNameString = <<>> => target = InvalidUrl
               /\ ~mFileNameUrl.valid => target = InvalidUrl
               /\ mFileNameUrl.scheme # "file" => target = InvalidUrl

C12_Witness ==
    /\ op.name = "screenshotUpdated"
    /\ op.mode = "DBusMode"
    /\ mFileNameUrl.valid
    /\ mFileNameUrl.scheme = "file"
    /\ Has(out, "doSave")
    /\ out[Pos(out, "doSave")].arg = InvalidUrl

\* a non-local file name reaches screenshotUpdated in BackgroundMode
C12_NonLocalReached ==
    /\ op.name = "screenshotUpdated"
    /\ op.mode = "BackgroundMode"
    /\ mFileNameUrl.valid
    /\ mFileNameUrl.scheme = "http"

(* C13: in every state after construction the three GUI indicators agree:  *)
(* the start mode is GuiMode iff isGuiInited iff mMainWindow is non-null; so *)
(* screenshotUpdated and screenshotFailed never go through a null main       *)
(* window, also when a capture scheduled in BackgroundMode or DBusMode       *)
(* delivers its result after dbusStartAgent switched the mode.               *)
C13_GuiIndicatorsAgree ==
    /\ mStartMode = "GuiMode" <=> isGuiInited
    /\ isGuiInited <=> mMainWindow # "nullptr"
    /\ mMainWindow # "nullptr" <=> nWindows = 1
    /\ ~Has(out, "null dereference")
    /\ (op.name = "screenshotUpdated" /\ op.mode = "GuiMode") =>
          Whats(out) = <<"setPixmap", "setScreenshotAndShow">>
    /\ (op.name = "screenshotFailed" /\ op.mode = "GuiMode") =>
          Whats(out) = <<"show">>

\* a capture that takeNewScreenshot scheduled in DBusMode delivers its pixmap
\* after dbusStartAgent switched the mode: it was the one capture pending at
\* the switch, and the queued call of initGui is still pending
C13_Witness ==
    /\ op.name = "screenshotUpdated"
    /\ op.mode = "GuiMode"
    /\ switched = [from |-> "DBusMode", pending |-> 1]
    /\ calls = 2
    /\ queued = 1
    /\ timers = 0
    /\ grabbing = 0
    /\ Whats(out) = <<"setPixmap", "setScreenshotAndShow">>

\* the same for the timer of a BackgroundMode constructor
C13_BackgroundLateDelivery ==
    /\ op.name = "screenshotUpdated"
    /\ op.mode = "GuiMode"
    /\ switched = [from |-> "BackgroundMode", pending |-> 1]
    /\ calls = 1
    /\ queued = 1
    /\ timers = 0
    /\ grabbing = 0
    /\ Whats(out) = <<"setPixmap", "setScreenshotAndShow">>

\* the same for a capture that fails
C13_LateFailure ==
    /\ op.name = "screenshotFailed"
    /\ op.mode = "GuiMode"
    /\ switched = [from |-> "DBusMode", pending |-> 1]
    /\ calls = 2
    /\ queued = 1
    /\ timers = 0
    /\ grabbing = 0
    /\ Whats(out) = <<"show">>

====
